---------------------------- MODULE Spec2Model ----------------------------
(***************************************************************************)
(* Model of the weblog data layer in src/models.py: Category, Entry and    *)
(* Link with their save() overrides, the live-entry queries, next/previous *)
(* navigation, and the comment-moderation policy registered for Entry and  *)
(* Link.                                                                   *)
(*                                                                         *)
(* Database tables are functions from primary key to row.  An in-memory    *)
(* model instance is a record with the same fields; its id is NoId until   *)
(* the first successful INSERT.  Fields that no method of models.py reads  *)
(* (title, author, featured, tags, via_name, via_url) are not carried.     *)
(***************************************************************************)
EXTENDS Integers, Sequences, FiniteSets, TLC

VARIABLES
    categories,        \* table of Category rows
    entries,           \* table of Entry rows
    entry_categories,  \* many-to-many join table: set of <<entry id, category id>>
    link,              \* the Link instance at hand: <<>> or <<instance>>
    links,             \* table of Link rows
    attempts,          \* per Link, by id: calls made to pydelicious.add
    moderate_after,    \* settings.COMMENTS_MODERATE_AFTER
    last               \* outcome of the last operation (what its caller observes)

vars == <<categories, entries, entry_categories, link, links, attempts,
          moderate_after, last>>

-----------------------------------------------------------------------------
(* Bounds *)

MaxRenderRows == 1
MaxNavEntries == 3
MaxLiveEntries == 2
MaxLiveCategories == 2
MaxAttempts == 2
MaxElapsed == 4
MaxModerateAfter == 2

-----------------------------------------------------------------------------
(* Values *)

\* Python None for a nullable text column.
None == "None"

\* The primary key of an instance that has not been inserted; `not self.id`.
NoId == 0

Live == 1
Draft == 2
Hidden == 3
STATUS_CHOICES == {Live, Draft, Hidden}

\* Python truth value of a text attribute: None and "" are false.
Truthy(text) == text # None /\ text # ""

\* template_utils.markup.formatter: the configured text-to-HTML filter.
formatter(text) == IF text = "" THEN "" ELSE "<p>" \o text \o "</p>"

Max(S) == CHOOSE x \in S : \A y \in S : y <= x

\* pub_date is a DateTimeField; two instants per calendar day.
DateOf(pub_date) == (pub_date + 1) \div 2

-----------------------------------------------------------------------------
(* django.db.models.Model.save / delete on a table *)

EmptyTable == <<>>

\* The key the database assigns to an INSERT without one.
NextId(table) == IF DOMAIN table = {} THEN 1 ELSE Max(DOMAIN table) + 1

\* Model.save(): UPDATE when a row with the instance's key exists, else INSERT.
\* Returns the instance as it is after the write (its id set).
Saved(table, self) ==
    IF self.id # NoId THEN self ELSE [self EXCEPT !.id = NextId(table)]

Written(table, self) ==
    LET row == Saved(table, self)
    IN  IF row.id \in DOMAIN table
        THEN [table EXCEPT ![row.id] = row]
        ELSE table @@ (row.id :> row)

Deleted(table, id) == [i \in (DOMAIN table) \ {id} |-> table[i]]

-----------------------------------------------------------------------------
(* Category *)

\* Category(slug=..., description=...): description_html is blank, not null.
Category(slug, description) ==
    [id |-> NoId, slug |-> slug, description |-> description,
     description_html |-> ""]

\* slug = SlugField(unique=True): the database rejects a second row with it.
Category_slug_unique(table, self) ==
    \A i \in DOMAIN table : i # self.id => table[i].slug # self.slug

\* Category.save up to the call of the inherited save.
Category_rendered(self) ==
    [self EXCEPT !.description_html = formatter(self.description)]

\* Category.save: [raised, self, table] as the caller finds them.
Category_save(self, table, formatter_ok) ==
    IF ~formatter_ok
    THEN [raised |-> "FormatterError", self |-> self, table |-> table]
    ELSE LET s == Category_rendered(self)
         IN  IF ~Category_slug_unique(table, s)
             THEN [raised |-> "IntegrityError", self |-> s, table |-> table]
             ELSE [raised |-> "", self |-> Saved(table, s),
                   table |-> Written(table, s)]

-----------------------------------------------------------------------------
(* Entry *)

\* Entry(...): body_html is blank; excerpt_html is nullable and starts None.
Entry(pub_date, slug, status, body, excerpt) ==
    [id |-> NoId, pub_date |-> pub_date, slug |-> slug, status |-> status,
     body |-> body, body_html |-> "", excerpt |-> excerpt,
     excerpt_html |-> None]

\* Variant: the body is rendered only while body_html is blank.
Entry_body_html_once(self) ==
    IF self.body_html = "" THEN formatter(self.body) ELSE self.body_html

\* self.body_html = formatter(self.body)
Entry_body_html(self) == formatter(self.body)

\* if self.excerpt: self.excerpt_html = formatter(self.excerpt)
Entry_excerpt_html(self) ==
    IF Truthy(self.excerpt) THEN formatter(self.excerpt) ELSE self.excerpt_html

Entry_rendered(self) ==
    [self EXCEPT !.excerpt_html = Entry_excerpt_html(self),
                 !.body_html = Entry_body_html(self)]

\* Entry.save.  The inherited save checks nothing: unique_for_date is a
\* validator of the admin form, not a constraint of the table.
Entry_save(self, table, formatter_ok) ==
    IF ~formatter_ok
    THEN [raised |-> "FormatterError", self |-> self, table |-> table]
    ELSE LET s == Entry_rendered(self)
         IN  [raised |-> "", self |-> Saved(table, s),
              table |-> Written(table, s)]


\* categories = ManyToManyField(Category): category.entry_set
Category_entry_set(c) ==
    {e \in DOMAIN entries : <<e, c>> \in entry_categories}

\* Variant: the status filter left out.
Category_get_all_entries(c) == Category_entry_set(c)

\* Category._get_live_entries: self.entry_set.filter(status__exact=1)
Category_get_live_entries(c) ==
    {e \in Category_entry_set(c) : entries[e].status = Live}

\* Entry.live = managers.LiveEntryManager(): the entries with status Live.
LiveEntryManager_get_query_set ==
    {e \in DOMAIN entries : entries[e].status = Live}

\* Model.get_next_by_pub_date / get_previous_by_pub_date with the filter
\* status__exact=1: the rows after (before) self in (pub_date, id) order.
Entry_candidates(self, table, direction) ==
    {i \in DOMAIN table :
        /\ table[i].status = Live
        /\ IF direction = "next"
           THEN \/ table[i].pub_date > self.pub_date
                \/ table[i].pub_date = self.pub_date /\ i > self.id
           ELSE \/ table[i].pub_date < self.pub_date
                \/ table[i].pub_date = self.pub_date /\ i < self.id}

\* The first candidate in the query's order: nearest pub_date, then nearest id.
Entry_first(table, S, direction) ==
    CHOOSE i \in S : \A j \in S :
        IF direction = "next"
        THEN \/ table[i].pub_date < table[j].pub_date
             \/ table[i].pub_date = table[j].pub_date /\ i <= j
        ELSE \/ table[i].pub_date > table[j].pub_date
             \/ table[i].pub_date = table[j].pub_date /\ i >= j

\* Entry._next_previous_helper: returns what get_<direction>_by_pub_date
\* returns, which raises Entry.DoesNotExist when no row qualifies.
Entry_next_previous_helper(self, table, direction) ==
    LET S == Entry_candidates(self, table, direction)
    IN  IF S = {}
        THEN [raised |-> "DoesNotExist", value |-> NoId]
        ELSE [raised |-> "", value |-> Entry_first(table, S, direction)]

Entry_get_next(self, table) == Entry_next_previous_helper(self, table, "next")

Entry_get_previous(self, table) ==
    Entry_next_previous_helper(self, table, "previous")

-----------------------------------------------------------------------------
(* Operations on categories and entries *)

\* A new instance, or a stored row fetched and edited by its author.
CategoryInstances(slugs, descriptions) ==
    {Category(s, d) : s \in slugs, d \in descriptions}
    \cup {[categories[i] EXCEPT !.slug = s, !.description = d] :
            i \in DOMAIN categories, s \in slugs, d \in descriptions}

EntryInstances(pub_dates, slugs, statuses, bodies, excerpts) ==
    LET Edits == [pub_date : pub_dates, slug : slugs, status : statuses,
                  body : bodies, excerpt : excerpts]
    IN  {Entry(x.pub_date, x.slug, x.status, x.body, x.excerpt) : x \in Edits}
        \cup {[entries[i] EXCEPT !.pub_date = x.pub_date, !.slug = x.slug,
                                 !.status = x.status, !.body = x.body,
                                 !.excerpt = x.excerpt] :
                i \in DOMAIN entries, x \in Edits}

SaveCategory(self, formatter_ok, cap) ==
    LET r == Category_save(self, categories, formatter_ok)
    IN  /\ self.id = NoId => NextId(categories) <= cap
        /\ categories' = r.table
        /\ last' = [op |-> "Category.save", raised |-> r.raised,
                    id |-> r.self.id,
                    resaved |-> /\ self.id \in DOMAIN categories
                                /\ categories[self.id].description
                                     = self.description]
        /\ UNCHANGED <<entries, entry_categories, link, links, attempts,
                       moderate_after>>

SaveEntry(self, formatter_ok, cap) ==
    LET r == Entry_save(self, entries, formatter_ok)
    IN  /\ self.id = NoId => NextId(entries) <= cap
        /\ entries' = r.table
        /\ last' = [op |-> "Entry.save", raised |-> r.raised,
                    id |-> r.self.id,
                    resaved |-> /\ self.id \in DOMAIN entries
                                /\ entries[self.id].body = self.body
                                /\ entries[self.id].excerpt = self.excerpt]
        /\ UNCHANGED <<categories, entry_categories, link, links,
                       attempts, moderate_after>>

\* entry.categories = [...]: replaces the entry's rows of the join table.
SetCategories(e, cs) ==
    /\ e \in DOMAIN entries
    /\ cs \subseteq DOMAIN categories
    /\ entry_categories' =
          {p \in entry_categories : p[1] # e} \cup {<<e, c>> : c \in cs}
    /\ last' = [op |-> "Entry.categories", id |-> e]
    /\ UNCHANGED <<categories, entries, link, links, attempts,
                   moderate_after>>

\* entry.delete(): the row and its rows of the join table.
DeleteEntry(e) ==
    /\ e \in DOMAIN entries
    /\ entries' = Deleted(entries, e)
    /\ entry_categories' = {p \in entry_categories : p[1] # e}
    /\ last' = [op |-> "Entry.delete", id |-> e]
    /\ UNCHANGED <<categories, link, links, attempts, moderate_after>>

\* category.delete(): the row and its rows of the join table.
DeleteCategory(c) ==
    /\ c \in DOMAIN categories
    /\ categories' = Deleted(categories, c)
    /\ entry_categories' = {p \in entry_categories : p[2] # c}
    /\ last' = [op |-> "Category.delete", id |-> c]
    /\ UNCHANGED <<entries, link, links, attempts, moderate_after>>

\* Entry.live.all()
QueryLive ==
    /\ last' = [op |-> "Entry.live", result |-> LiveEntryManager_get_query_set,
                store |-> <<categories, entries, entry_categories>>]
    /\ UNCHANGED <<categories, entries, entry_categories, link, links,
                   attempts, moderate_after>>

\* category.live_entry_set
QueryLiveEntrySet(c) ==
    /\ c \in DOMAIN categories
    /\ last' = [op |-> "Category.live_entry_set", id |-> c,
                result |-> Category_get_live_entries(c),
                store |-> <<categories, entries, entry_categories>>]
    /\ UNCHANGED <<categories, entries, entry_categories, link, links,
                   attempts, moderate_after>>

\* entry.get_next()
GetNext(e) ==
    /\ e \in DOMAIN entries
    /\ LET r == Entry_get_next(entries[e], entries)
       IN  last' = [op |-> "Entry.get_next", id |-> e, raised |-> r.raised,
                    value |-> r.value]
    /\ UNCHANGED <<categories, entries, entry_categories, link, links,
                   attempts, moderate_after>>

\* entry.get_previous()
GetPrevious(e) ==
    /\ e \in DOMAIN entries
    /\ LET r == Entry_get_previous(entries[e], entries)
       IN  last' = [op |-> "Entry.get_previous", id |-> e,
                    raised |-> r.raised, value |-> r.value]
    /\ UNCHANGED <<categories, entries, entry_categories, link, links,
                   attempts, moderate_after>>

-----------------------------------------------------------------------------
(* Link *)

\* Link(...): description_html is nullable and starts None.
Link(post_elsewhere, url, description) ==
    [id |-> NoId, post_elsewhere |-> post_elsewhere, url |-> url,
     description |-> description, description_html |-> None]

\* url = URLField(unique=True): the database rejects a second row with it.
Link_url_unique(table, self) ==
    \A i \in DOMAIN table : i # self.id => table[i].url # self.url

\* Variant: the test of self.id left out.
Link_should_publish_any_save(self) == self.post_elsewhere

\* if not self.id and self.post_elsewhere:
Link_should_publish(self) == self.id = NoId /\ self.post_elsewhere

\* Variant: without the except clause.
Link_delicious_raised_unquashed(delicious) ==
    IF delicious = "import_error" THEN "ImportError"
    ELSE IF delicious = "fail" THEN "DeliciousError" ELSE ""

\* import pydelicious; try: pydelicious.add(...) except: pass
\* The import stands outside the try; whatever add raises is dropped.
Link_delicious_raised(delicious) ==
    IF delicious = "import_error" THEN "ImportError" ELSE ""

\* if self.description: self.description_html = formatter(self.description)
Link_description_html(self) ==
    IF Truthy(self.description) THEN formatter(self.description)
    ELSE self.description_html

\* Link.save: [raised, self, table, called] as the caller finds them;
\* called tells whether pydelicious.add was invoked.
Link_save(self, table, delicious, formatter_ok) ==
    LET publish == Link_should_publish(self)
        called == publish /\ delicious # "import_error"
        raised == IF publish THEN Link_delicious_raised(delicious) ELSE ""
        s == [self EXCEPT !.description_html = Link_description_html(self)]
    IN  IF raised # ""
        THEN [raised |-> raised, self |-> self, table |-> table,
              called |-> called]
        ELSE IF Truthy(self.description) /\ ~formatter_ok
        THEN [raised |-> "FormatterError", self |-> self, table |-> table,
              called |-> called]
        ELSE IF ~Link_url_unique(table, s)
        THEN [raised |-> "IntegrityError", self |-> s, table |-> table,
              called |-> called]
        ELSE [raised |-> "", self |-> Saved(table, s),
              table |-> Written(table, s), called |-> called]

\* link = Link(...)
NewLink(post_elsewhere, url, description) ==
    /\ link' = <<Link(post_elsewhere, url, description)>>
    /\ link' # link
    /\ attempts' = [attempts EXCEPT ![NoId] = 0]
    /\ last' = [op |-> "Link"]
    /\ UNCHANGED <<categories, entries, entry_categories, links,
                   moderate_after>>

\* link = Link.objects.get(pk=id)
GetLink(id) ==
    /\ id \in DOMAIN links
    /\ link' = <<links[id]>>
    /\ link' # link
    /\ attempts' = [attempts EXCEPT ![NoId] = 0]
    /\ last' = [op |-> "Link.objects.get"]
    /\ UNCHANGED <<categories, entries, entry_categories, links,
                   moderate_after>>

\* Assignments to the editable fields of the instance.
EditLink(post_elsewhere, url, description) ==
    /\ link # <<>>
    /\ link' = <<[link[1] EXCEPT !.post_elsewhere = post_elsewhere,
                                 !.url = url,
                                 !.description = description]>>
    /\ link' # link
    /\ last' = [op |-> "Link.edit"]
    /\ UNCHANGED <<categories, entries, entry_categories, links, attempts,
                   moderate_after>>

\* link.save()
SaveLink(delicious, formatter_ok) ==
    /\ link # <<>>
    /\ LET self == link[1]
           r == Link_save(self, links, delicious, formatter_ok)
           n == attempts[self.id] + IF r.called THEN 1 ELSE 0
       IN  /\ n <= MaxAttempts
           /\ link' = <<r.self>>
           /\ links' = r.table
           /\ attempts' = IF r.self.id = self.id
                          THEN [attempts EXCEPT ![self.id] = n]
                          ELSE (r.self.id :> n) @@ [attempts EXCEPT ![NoId] = 0]
           /\ last' = [op |-> "Link.save",
                       was_new |-> self.id = NoId,
                       post_elsewhere |-> self.post_elsewhere,
                       called |-> r.called,
                       delicious |-> IF r.called THEN delicious ELSE "unused",
                       raised |-> r.raised,
                       had_add_succeeded |->
                           LET b == Link_save(self, links, "ok", formatter_ok)
                           IN  [raised |-> b.raised, self |-> b.self]]
    /\ UNCHANGED <<categories, entries, entry_categories, moderate_after>>

-----------------------------------------------------------------------------
(* ColtraneModerator, registered for Entry and Link.  The attributes are   *)
(* those of models.py; the procedure that reads them belongs to            *)
(* comment_utils.moderation and follows the design description of the      *)
(* Comment Moderator.                                                      *)

akismet == TRUE
auto_moderate_field == "pub_date"
email_notification == TRUE

\* Variant: no enable field configured.
enable_field_unset == None

enable_field == "enable_comments"

\* The object a comment is attached to, as the moderator reads it.
ContentObject(model, enable_comments, pub_date) ==
    [enable_comments |-> enable_comments, model |-> model,
     pub_date |-> pub_date]

\* Comments are allowed unless the enable field of the object is false.
CommentModerator_allow(content_object) ==
    enable_field # None => content_object[enable_field]

\* A comment is held when the spam check flags it, or when more than
\* moderate_after days have passed since the auto-moderate field's date.
CommentModerator_moderate(content_object, now, spam) ==
    \/ akismet /\ spam
    \/ /\ auto_moderate_field # None
       /\ now - content_object[auto_moderate_field] > moderate_after

\* Rejected when not allowed, held when moderated, accepted otherwise;
\* maintainers are notified of every comment that is not rejected.
Moderator_decision(content_object, now, spam) ==
    LET d == IF ~CommentModerator_allow(content_object) THEN "reject"
             ELSE IF CommentModerator_moderate(content_object, now, spam)
             THEN "hold" ELSE "accept"
    IN  [decision |-> d, notified |-> d # "reject" /\ email_notification]

\* A new comment, posted at time now (in days) on an object of the given
\* model with the given enable_comments and pub_date.
PostComment(model, enable_comments, pub_date, now, spam) ==
    LET content_object == ContentObject(model, enable_comments, pub_date)
        r == Moderator_decision(content_object, now, spam)
    IN  /\ now >= pub_date
        /\ last' = [op |-> "comment", content_object |-> content_object,
                    now |-> now, spam |-> spam, decision |-> r.decision,
                    notified |-> r.notified]
        /\ UNCHANGED <<categories, entries, entry_categories, link, links,
                       attempts, moderate_after>>

-----------------------------------------------------------------------------
(* Initial state: empty tables, nothing instantiated *)

Init ==
    /\ categories = EmptyTable
    /\ entries = EmptyTable
    /\ entry_categories = {}
    /\ link = <<>>
    /\ links = EmptyTable
    /\ attempts = (NoId :> 0)
    /\ moderate_after = 1
    /\ last = [op |-> "init"]

-----------------------------------------------------------------------------
(* Rendering on save: one category and one entry, every text *)

RequiredTexts == {"", "a", "b"}
OptionalTexts == {None, "", "a", "b"}

RenderSaveCategory ==
    \E self \in CategoryInstances({"c1"}, RequiredTexts), ok \in BOOLEAN :
        SaveCategory(self, ok, MaxRenderRows)

RenderSaveEntry ==
    \E self \in EntryInstances({1}, {"s1"}, {Live}, RequiredTexts,
                               OptionalTexts), ok \in BOOLEAN :
        SaveEntry(self, ok, MaxRenderRows)

NextRender == RenderSaveCategory \/ RenderSaveEntry

SpecRender == Init /\ [][NextRender]_vars

-----------------------------------------------------------------------------
(* Navigation and slugs: entries that differ in pub_date, slug and status *)

MaxPubDate == 3
PubDates == 1..MaxPubDate
Slugs == {"s1", "s2"}

NavSaveEntry ==
    \E self \in EntryInstances(PubDates, Slugs, STATUS_CHOICES, {"a"}, {None}) :
        SaveEntry(self, TRUE, MaxNavEntries)

NavDeleteEntry == \E e \in DOMAIN entries : DeleteEntry(e)

NavGetNext == \E e \in DOMAIN entries : GetNext(e)

NavGetPrevious == \E e \in DOMAIN entries : GetPrevious(e)

NextNav == NavSaveEntry \/ NavDeleteEntry \/ NavGetNext \/ NavGetPrevious

SpecNav == Init /\ [][NextNav]_vars

-----------------------------------------------------------------------------
(* Live entries: entries that differ in status and categories *)

CategorySlugs == {"c1", "c2"}

LiveSaveCategory ==
    \E self \in CategoryInstances(CategorySlugs, {"a"}) :
        SaveCategory(self, TRUE, MaxLiveCategories)

LiveDeleteCategory == \E c \in DOMAIN categories : DeleteCategory(c)

LiveSaveEntry ==
    \E self \in EntryInstances({1}, {"s1"}, STATUS_CHOICES, {"a"}, {None}) :
        SaveEntry(self, TRUE, MaxLiveEntries)

LiveSetCategories ==
    \E e \in DOMAIN entries, cs \in SUBSET (DOMAIN categories) :
        SetCategories(e, cs)

LiveDeleteEntry == \E e \in DOMAIN entries : DeleteEntry(e)

LiveQueryLiveEntrySet == \E c \in DOMAIN categories : QueryLiveEntrySet(c)

NextLive ==
    \/ LiveSaveCategory
    \/ LiveDeleteCategory
    \/ LiveSaveEntry
    \/ LiveSetCategories
    \/ LiveDeleteEntry
    \/ QueryLive
    \/ LiveQueryLiveEntrySet

SpecLive == Init /\ [][NextLive]_vars

-----------------------------------------------------------------------------
(* Links: instances created, fetched, edited and saved, with every        *)
(* publisher outcome                                                       *)

Urls == {"u1", "u2"}
LinkTexts == {"a"}
DeliciousOutcomes == {"ok", "fail", "import_error"}

LinkNew ==
    \E pe \in BOOLEAN, url \in Urls, d \in LinkTexts :
        NewLink(pe, url, d)

LinkGet == \E id \in DOMAIN links : GetLink(id)

LinkEdit ==
    \E pe \in BOOLEAN, url \in Urls, d \in LinkTexts : EditLink(pe, url, d)

LinkSave ==
    \E delicious \in DeliciousOutcomes, ok \in BOOLEAN :
        SaveLink(delicious, ok)

NextLink == LinkNew \/ LinkGet \/ LinkEdit \/ LinkSave

SpecLink == Init /\ [][NextLink]_vars

-----------------------------------------------------------------------------
(* Optional text: an entry's excerpt and a link's description *)

OptionalSaveEntry ==
    \E self \in EntryInstances({1}, {"s1"}, {Live}, {"a"}, OptionalTexts),
       ok \in BOOLEAN :
        SaveEntry(self, ok, MaxRenderRows)

OptionalNewLink ==
    \E d \in OptionalTexts : NewLink(FALSE, "u1", d)

OptionalEditLink ==
    \E d \in OptionalTexts : EditLink(FALSE, "u1", d)

OptionalSaveLink == \E ok \in BOOLEAN : SaveLink("ok", ok)

NextOptional ==
    OptionalSaveEntry \/ OptionalNewLink \/ OptionalEditLink \/ OptionalSaveLink

SpecOptional == Init /\ [][NextOptional]_vars

-----------------------------------------------------------------------------
(* Comment moderation: every object, age, threshold and spam signal *)

InitMod ==
    /\ categories = EmptyTable
    /\ entries = EmptyTable
    /\ entry_categories = {}
    /\ link = <<>>
    /\ links = EmptyTable
    /\ attempts = (NoId :> 0)
    /\ moderate_after \in 0..MaxModerateAfter
    /\ last = [op |-> "init"]

ModPostComment ==
    \E model \in {"Entry", "Link"}, enable_comments \in BOOLEAN,
       pub_date \in 0..1, now \in 0..MaxElapsed, spam \in BOOLEAN :
        PostComment(model, enable_comments, pub_date, now, spam)

NextMod == ModPostComment

SpecMod == InitMod /\ [][NextMod]_vars

-----------------------------------------------------------------------------
(* Properties *)

\* C1: in every stored Category the description_html is the rendering of
\* the stored description, and in every stored Entry the body_html is the
\* rendering of the stored body, after every save, changed text or not.
C1_RenderedIsRenderOfRaw ==
    /\ \A c \in DOMAIN categories :
          categories[c].description_html = formatter(categories[c].description)
    /\ \A e \in DOMAIN entries :
          entries[e].body_html = formatter(entries[e].body)

\* C1: an entry is saved again with the text it already had.
C1_Witness ==
    /\ last.op = "Entry.save"
    /\ last.raised = ""
    /\ last.resaved
    /\ entries[last.id].body = "b"
    /\ entries[last.id].body_html = "<p>b</p>"

\* C2: in every stored Entry the excerpt_html is empty or absent exactly
\* when the excerpt is, and is its rendering otherwise; the same for the
\* description_html and description of every stored Link.
C2_OptionalRenderedIffRaw ==
    /\ \A e \in DOMAIN entries :
          IF Truthy(entries[e].excerpt)
          THEN entries[e].excerpt_html = formatter(entries[e].excerpt)
          ELSE ~Truthy(entries[e].excerpt_html)
    /\ \A l \in DOMAIN links :
          IF Truthy(links[l].description)
          THEN links[l].description_html = formatter(links[l].description)
          ELSE ~Truthy(links[l].description_html)

\* C3: get_next on a stored entry returns, as a value, a Live entry with the
\* smallest pub_date greater than its own, or None when there is none, and
\* get_previous the same with the largest smaller pub_date.
C3_NextPreviousAsClaimed ==
    last.op \in {"Entry.get_next", "Entry.get_previous"} =>
        LET self == entries[last.id]
            S == {i \in DOMAIN entries :
                    /\ entries[i].status = Live
                    /\ IF last.op = "Entry.get_next"
                       THEN entries[i].pub_date > self.pub_date
                       ELSE entries[i].pub_date < self.pub_date}
        IN  /\ last.raised = ""
            /\ IF S = {}
               THEN last.value = NoId
               ELSE /\ last.value \in S
                    /\ \A j \in S :
                          IF last.op = "Entry.get_next"
                          THEN entries[last.value].pub_date <= entries[j].pub_date
                          ELSE entries[last.value].pub_date >= entries[j].pub_date

\* C4: the live-entries query returns exactly the stored entries with status
\* Live; scoped to a category, exactly those that are Live and associated
\* with the category; and the tables are as they were before the query.
C4_LiveEntriesOnly ==
    /\ last.op = "Entry.live" =>
          /\ last.result = {e \in DOMAIN entries : entries[e].status = Live}
          /\ last.store = <<categories, entries, entry_categories>>
    /\ last.op = "Category.live_entry_set" =>
          /\ last.result = {e \in DOMAIN entries :
                              /\ entries[e].status = Live
                              /\ <<e, last.id>> \in entry_categories}
          /\ last.store = <<categories, entries, entry_categories>>

\* C4: a category holds a Live and a non-Live entry, and its live entries
\* were queried.
C4_Witness ==
    /\ last.op = "Category.live_entry_set"
    /\ last.result # {}
    /\ \E e \in DOMAIN entries :
          /\ <<e, last.id>> \in entry_categories
          /\ entries[e].status # Live

\* C5: over all the save calls on one Link, pydelicious.add is called at most
\* once, and exactly once by the time a Link flagged post_elsewhere has been
\* created.
C5_PublishedExactlyOnce ==
    /\ \A id \in DOMAIN attempts : attempts[id] <= 1
    /\ (last.op = "Link.save" /\ last.was_new /\ last.post_elsewhere
          /\ last.raised = "") => attempts[link[1].id] = 1

\* C6: a save of a Link that is already stored, or of a Link whose
\* post_elsewhere is false, does not call the bookmark publisher.
C6_NoPublishOnEditOrUnflagged ==
    last.op = "Link.save" =>
        ((~last.was_new \/ ~last.post_elsewhere) => ~last.called)

\* C6: a Link created unflagged is flagged later and saved again, and the
\* publisher has never been called for it.
C6_Witness ==
    /\ last.op = "Link.save"
    /\ ~last.was_new
    /\ last.post_elsewhere
    /\ last.raised = ""
    /\ attempts[link[1].id] = 0

C8_ClosedCommentsRejected ==
    (last.op = "comment" /\ ~last.content_object.enable_comments) =>
        /\ last.decision = "reject"
        /\ ~last.notified

\* C8: a comment that is neither stale nor spam is posted on an object whose
\* comments are closed.
C8_Witness ==
    /\ last.op = "comment"
    /\ ~last.content_object.enable_comments
    /\ ~last.spam
    /\ last.now - last.content_object.pub_date <= moderate_after
    /\ last.decision = "reject"

\* C10: no two stored entries have the same slug and the same calendar date
\* of pub_date.
C10_SlugUniqueForDate ==
    \A i, j \in DOMAIN entries :
        i # j => ~(/\ entries[i].slug = entries[j].slug
                   /\ DateOf(entries[i].pub_date) = DateOf(entries[j].pub_date))

=============================================================================
